---- MODULE Spec2Model ----
(***************************************************************************)
(* Model of transit-network-analysis-tools/ReplaceRouteShapes.py:          *)
(* TransitDataModel (validate_tables_exist, validate_required_fields) and  *)
(* RouteShapeReplacer (__init__, replace_route_shapes_with_lveshapes).     *)
(*                                                                         *)
(* A behaviour is one construction of a RouteShapeReplacer followed, when  *)
(* construction succeeds, by one call of                                   *)
(* replace_route_shapes_with_lveshapes.  The geodatabase (the transit      *)
(* feature dataset, the traversed edges feature class) is the environment: *)
(* its schema is chosen in Init, the traversed edge rows are drawn one at  *)
(* a time as the search cursor yields them.                                *)
(***************************************************************************)
EXTENDS Integers, Sequences, FiniteSets, TLC

VARIABLES
    transit_fd,          \* the transit feature dataset: argument type and schema
    traversed_edges_fc,  \* the traversed edges feature class: existence and fields
    pc,                  \* position in __init__ / replace_route_shapes_with_lveshapes
    calls,               \* arcpy catalog calls issued so far, in order
    rows,                \* traversed edge rows the search cursor has yielded so far
    segment_geom,        \* local segment_geom of the loop body
    lveshape_id,         \* local lveshape_id of the loop body
    route_segments,      \* dict RouteID -> arcpy.Array, in insertion order
    open_cursors,        \* cursors that currently exist and hold their locks
    queried,             \* <<relation, field>> pairs named in lookup queries
    lookups,             \* <<row index, relation>> lookups issued
    pending,             \* exception in flight inside the method, or NoException
    raised,              \* exception that reached the caller, or NoException
    out_fc,              \* output feature class: created flag and inserted rows
    item_idx             \* number of route_segments items already inserted

vars == <<transit_fd, traversed_edges_fc, pc, calls, rows, segment_geom, lveshape_id,
          route_segments, open_cursors, queried, lookups, pending, raised, out_fc,
          item_idx>>

-----------------------------------------------------------------------------
(* Bounds and input universes *)

MaxEdges == 3

\* A geometry value: None (a null SHAPE@) or a sequence of parts, each a sequence of vertices.
Geometry(parts) == [is_none |-> FALSE, parts |-> parts]
NoneGeom == [is_none |-> TRUE, parts |-> << >>]
NoID == 0
NoException == "None"

LVE == "LineVariantElements"
LVESHAPES == "LVEShapes"

RouteIDs == {1, 2}
SourceNames == {LVE, "Streets"}
SourceOIDs == {10, 11, 12, 13}

GeomA == Geometry(<< <<1, 2>>, <<3>> >>)
GeomB == Geometry(<< <<4>> >>)
GeomEmpty == Geometry(<< >>)
GeomShape == Geometry(<< <<7>>, <<8, 9>> >>)
OwnShapes == {GeomA, GeomB, GeomEmpty}

\* Rows the traversed edges cursor can yield: (RouteID, SHAPE@, SourceName, SourceOID).
\* Edges of other sources carry ids of their own source; the id that collides with a
\* LineVariantElements OID is the one kept.
TERows == { r \in [RouteID : RouteIDs, Shape : OwnShapes, SourceName : SourceNames,
                   SourceOID : SourceOIDs] : r.SourceName # LVE => r.SourceOID = 10 }

\* Contents of LineVariantElements: OID 10, 11, 12 have a row, OID 13 has none.
LineVariantElementsRows ==
    { [OID |-> 10, LVEShapeID |-> 501],
      [OID |-> 11, LVEShapeID |-> 502],
      [OID |-> 12, LVEShapeID |-> 503] }

\* Contents of LVEShapes: 501 has a geometry, 502 a null geometry, 503 no row.
LVEShapesRows ==
    { [LVEShapeID |-> 501, Shape |-> GeomShape],
      [LVEShapeID |-> 502, Shape |-> NoneGeom] }

\* Field names as the backing stores report them (SDE engines change the case).
LveFieldSets == { {"OBJECTID", "lveshapeid"}, {"OBJECTID"} }
LveShapesFieldSets == { {"OBJECTID", "ID", "LVEShapeID"}, {"OBJECTID", "id"},
                        {"OBJECTID", "LVEShapeID"}, {"OBJECTID"} }
TEFieldSets == { {"RouteID", "SourceName", "SourceOID"}, {"SourceName", "SourceOID"} }

\* str.lower() on the field names that occur.
Lower(f) ==
    CASE f \in {"LVEShapeID", "lveshapeid", "LVESHAPEID"} -> "lveshapeid"
      [] f \in {"ID", "id"} -> "id"
      [] f \in {"OBJECTID", "objectid"} -> "objectid"
      [] OTHER -> f

LowerAll(fs) == { Lower(f) : f \in fs }

-----------------------------------------------------------------------------
(* TransitDataModel *)

required_tables == <<LVE, LVESHAPES>>

required_fields(table) ==
    IF table = LVE THEN {"LVEShapeID"} ELSE {"ID"}

Exists(fd, table) ==
    IF table = LVE THEN fd.lve_exists ELSE fd.lveshapes_exists

ListFields(fd, table) ==
    IF table = LVE THEN fd.lve_fields ELSE fd.lveshapes_fields

\* Variant: the flag is overwritten by each table, so only the last one counts.
TablesExistLastOnly(fd) ==
    Exists(fd, required_tables[Len(required_tables)])

\* validate_tables_exist: TRUE when the method returns without raising.
TablesExist(fd) ==
    \A i \in 1..Len(required_tables) : Exists(fd, required_tables[i])

\* validate_required_fields, one table: lower-cased subset test.
HasRequiredFields(fd, table) ==
    LowerAll(required_fields(table)) \subseteq LowerAll(ListFields(fd, table))

RequiredFieldsPresent(fd) ==
    \A i \in 1..Len(required_tables) : HasRequiredFields(fd, required_tables[i])

-----------------------------------------------------------------------------
(* Geometry and dictionary helpers *)

\* segment_geom.getPart(): the parts of the polyline, in part order.
getPart(geom) == geom.parts

\* Variant: the part is inserted in front of the accumulated vertices.
ArrayExtendFront(arr, part) == part \o arr

\* arcpy.Array.extend
ArrayExtend(arr, part) == arr \o part

HasKey(rs, k) == \E i \in 1..Len(rs) : rs[i].key = k

\* dict.setdefault(k, arcpy.Array()).extend(part)
SetDefaultExtend(rs, k, part) ==
    LET rs1 == IF HasKey(rs, k) THEN rs ELSE Append(rs, [key |-> k, value |-> << >>])
    IN [i \in 1..Len(rs1) |->
          IF rs1[i].key = k
          THEN [key |-> k, value |-> ArrayExtend(rs1[i].value, part)]
          ELSE rs1[i]]

RECURSIVE StoreParts(_, _, _)
\* for part in segment_geom.getPart(): route_segments.setdefault(...).extend(part)
StoreParts(rs, k, parts) ==
    IF parts = << >> THEN rs
    ELSE StoreParts(SetDefaultExtend(rs, k, Head(parts)), k, Tail(parts))

\* Variant: the shape's parts are added to the segment's own parts.
MergeGeom(own, lveshape_geom) ==
    IF ~lveshape_geom.is_none THEN Geometry(own.parts \o lveshape_geom.parts) ELSE own

\* if lveshape_geom: segment_geom = lveshape_geom
ReplaceGeom(own, lveshape_geom) ==
    IF ~lveshape_geom.is_none THEN lveshape_geom ELSE own

\* Rows a lookup cursor with the where clause "<oid field> = oid" yields.
LinkMatches(oid) == { r \in LineVariantElementsRows : r.OID = oid }

\* Variant: a row counts as a line variant element when its SourceOID has a link row.
IsLVERowByOID(row) == LinkMatches(row.SourceOID) # {}

\* if row[2] == "LineVariantElements"
IsLVERow(row) == row.SourceName = LVE

\* Rows a lookup cursor with the where clause "LVEShapeID = id" yields.
ShapeMatches(id) == { r \in LVEShapesRows : r.LVEShapeID = id }

\* Variant: the failure is wrapped before it leaves the method.
PropagateWrapped(exc) == "GeometryResolutionError"

\* No try/except in the method: the exception in flight is what the caller receives.
Propagate(exc) == exc

\* Variant: the cursor is closed by a statement at the end of the block, which an
\* exception skips.
WithExitOnSuccess(cursors, c) ==
    IF pending = NoException THEN cursors \ {c} ELSE cursors

\* Leaving a with block releases its cursor, whether or not an exception is in flight.
WithExit(cursors, c) == cursors \ {c}

CurrentRow == rows[Len(rows)]

-----------------------------------------------------------------------------
(* Initial state: the arguments of RouteShapeReplacer(...) *)

Init ==
    /\ transit_fd \in [is_str : BOOLEAN, lve_exists : BOOLEAN, lveshapes_exists : BOOLEAN,
                       lve_fields : LveFieldSets \cup {{}},
                       lveshapes_fields : LveShapesFieldSets \cup {{}}]
    /\ transit_fd.lve_fields = {} <=> ~transit_fd.lve_exists
    /\ transit_fd.lveshapes_fields = {} <=> ~transit_fd.lveshapes_exists
    /\ traversed_edges_fc \in [exists : BOOLEAN, fields : TEFieldSets]
    /\ pc = "init"
    /\ calls = << >>
    /\ rows = << >>
    /\ segment_geom = NoneGeom
    /\ lveshape_id = NoID
    /\ route_segments = << >>
    /\ open_cursors = {}
    /\ queried = {}
    /\ lookups = {}
    /\ pending = NoException
    /\ raised = NoException
    /\ out_fc = [created |-> FALSE, rows |-> << >>]
    /\ item_idx = 0

TNATError == "TransitNetworkAnalysisToolsError"

-----------------------------------------------------------------------------
(* RouteShapeReplacer.__init__ *)

\* if not isinstance(transit_fd, str): raise
CheckTransitFd ==
    /\ pc = "init"
    /\ IF transit_fd.is_str
       THEN pc' = "validate_tables" /\ raised' = raised
       ELSE pc' = "init_failed" /\ raised' = TNATError
    /\ UNCHANGED <<transit_fd, traversed_edges_fc, calls, rows, segment_geom, lveshape_id,
                   route_segments, open_cursors, queried, lookups, pending, out_fc,
                   item_idx>>

\* self.transit_dm.validate_tables_exist()
ValidateTablesExist ==
    /\ pc = "validate_tables"
    /\ calls' = calls \o <<"Exists(LineVariantElements)", "Exists(LVEShapes)">>
    /\ IF TablesExist(transit_fd)
       THEN pc' = "validate_fields" /\ raised' = raised
       ELSE pc' = "init_failed" /\ raised' = TNATError
    /\ UNCHANGED <<transit_fd, traversed_edges_fc, rows, segment_geom, lveshape_id,
                   route_segments, open_cursors, queried, lookups, pending, out_fc,
                   item_idx>>

\* self.transit_dm.validate_required_fields(): raises at the first table that fails
ValidateRequiredFields ==
    /\ pc = "validate_fields"
    /\ calls' = IF HasRequiredFields(transit_fd, LVE)
                THEN calls \o <<"ListFields(LineVariantElements)", "ListFields(LVEShapes)">>
                ELSE Append(calls, "ListFields(LineVariantElements)")
    /\ IF RequiredFieldsPresent(transit_fd)
       THEN pc' = "validate_te_exists" /\ raised' = raised
       ELSE pc' = "init_failed" /\ raised' = TNATError
    /\ UNCHANGED <<transit_fd, traversed_edges_fc, rows, segment_geom, lveshape_id,
                   route_segments, open_cursors, queried, lookups, pending, out_fc,
                   item_idx>>

\* if not arcpy.Exists(self.traversed_edges_fc): raise
ValidateTraversedEdgesExist ==
    /\ pc = "validate_te_exists"
    /\ calls' = Append(calls, "Exists(traversed_edges_fc)")
    /\ IF traversed_edges_fc.exists
       THEN pc' = "validate_te_fields" /\ raised' = raised
       ELSE pc' = "init_failed" /\ raised' = TNATError
    /\ UNCHANGED <<transit_fd, traversed_edges_fc, rows, segment_geom, lveshape_id,
                   route_segments, open_cursors, queried, lookups, pending, out_fc,
                   item_idx>>

\* self.te_desc = arcpy.Describe(...); required traversal fields (case-sensitive)
ValidateTraversedEdgesFields ==
    /\ pc = "validate_te_fields"
    /\ calls' = Append(calls, "Describe(traversed_edges_fc)")
    /\ IF {"SourceName", "SourceOID", "RouteID"} \subseteq traversed_edges_fc.fields
       THEN pc' = "constructed" /\ raised' = raised
       ELSE pc' = "init_failed" /\ raised' = TNATError
    /\ UNCHANGED <<transit_fd, traversed_edges_fc, rows, segment_geom, lveshape_id,
                   route_segments, open_cursors, queried, lookups, pending, out_fc,
                   item_idx>>

-----------------------------------------------------------------------------
(* RouteShapeReplacer.replace_route_shapes_with_lveshapes *)

\* A lookup query names a field; it fails when the relation has no such field
\* (field names in where clauses are matched without regard to case).
QueryFieldExists(fd, table, field) == Lower(field) \in LowerAll(ListFields(fd, table))

\* Variant: the output feature class is created before the rows are read.
MakeFeatureLayersAndCreate ==
    /\ pc = "constructed"
    /\ calls' = calls \o <<"MakeFeatureLayer(LineVariantElements)",
                           "Describe(LineVariantElements)", "MakeFeatureLayer(LVEShapes)",
                           "CreateFeatureclass(out_fc)", "AddField(out_fc)">>
    /\ out_fc' = [out_fc EXCEPT !.created = TRUE]
    /\ pc' = "open_te"
    /\ UNCHANGED <<transit_fd, traversed_edges_fc, rows, segment_geom, lveshape_id,
                   route_segments, open_cursors, queried, lookups, pending, raised,
                   item_idx>>

\* MakeFeatureLayer for both relations, Describe(lve_lyr_name).oidFieldName
MakeFeatureLayers ==
    /\ pc = "constructed"
    /\ calls' = calls \o <<"MakeFeatureLayer(LineVariantElements)",
                           "Describe(LineVariantElements)", "MakeFeatureLayer(LVEShapes)">>
    /\ pc' = "open_te"
    /\ UNCHANGED <<transit_fd, traversed_edges_fc, rows, segment_geom, lveshape_id,
                   route_segments, open_cursors, queried, lookups, pending, raised, out_fc,
                   item_idx>>

\* for row in arcpy.da.SearchCursor(self.traversed_edges_fc, fields): the cursor is created
OpenTraversedEdgesCursor ==
    /\ pc = "open_te"
    /\ calls' = Append(calls, "SearchCursor(traversed_edges_fc)")
    /\ open_cursors' = open_cursors \cup {"te"}
    /\ pc' = "fetch"
    /\ UNCHANGED <<transit_fd, traversed_edges_fc, rows, segment_geom, lveshape_id,
                   route_segments, queried, lookups, pending, raised, out_fc, item_idx>>

\* The cursor yields the next row; segment_geom = row[1]; if row[2] == "LineVariantElements"
FetchRow ==
    /\ pc = "fetch"
    /\ Len(rows) < MaxEdges
    /\ \E r \in TERows :
         /\ rows' = Append(rows, r)
         /\ segment_geom' = r.Shape
         /\ pc' = IF IsLVERow(r) THEN "link_open" ELSE "store"
    /\ UNCHANGED <<transit_fd, traversed_edges_fc, calls, lveshape_id, route_segments,
                   open_cursors, queried, lookups, pending, raised, out_fc, item_idx>>

\* The cursor is exhausted: the loop ends and its anonymous cursor object is dropped.
EndOfRows ==
    /\ pc = "fetch"
    /\ open_cursors' = open_cursors \ {"te"}
    /\ pc' = "create_out"
    /\ UNCHANGED <<transit_fd, traversed_edges_fc, calls, rows, segment_geom, lveshape_id,
                   route_segments, queried, lookups, pending, raised, out_fc, item_idx>>

\* The cursor fails while reading (data-access failure of the underlying store).
ReadFails ==
    /\ pc = "fetch"
    /\ pending' = "RuntimeError"
    /\ pc' = "unwind"
    /\ UNCHANGED <<transit_fd, traversed_edges_fc, calls, rows, segment_geom, lveshape_id,
                   route_segments, open_cursors, queried, lookups, raised, out_fc,
                   item_idx>>

\* with arcpy.da.SearchCursor(lve_lyr_name, ["LVEShapeID"], f"{lve_oid_field} = {row[3]}") as cur
LinkOpen ==
    /\ pc = "link_open"
    /\ open_cursors' = open_cursors \cup {"lve"}
    /\ queried' = queried \cup {<<LVE, "LVEShapeID">>}
    /\ lookups' = lookups \cup {<<Len(rows), LVE>>}
    /\ pc' = "link_next"
    /\ UNCHANGED <<transit_fd, traversed_edges_fc, calls, rows, segment_geom, lveshape_id,
                   route_segments, pending, raised, out_fc, item_idx>>

\* lveshape_id = next(cur)[0]
LinkNext ==
    /\ pc = "link_next"
    /\ IF ~QueryFieldExists(transit_fd, LVE, "LVEShapeID")
       THEN pending' = "RuntimeError" /\ lveshape_id' = lveshape_id
       ELSE IF LinkMatches(CurrentRow.SourceOID) = {}
       THEN pending' = "StopIteration" /\ lveshape_id' = lveshape_id
       ELSE /\ pending' = pending
            /\ lveshape_id' = (CHOOSE r \in LinkMatches(CurrentRow.SourceOID) : TRUE).LVEShapeID
    /\ pc' = "link_exit"
    /\ UNCHANGED <<transit_fd, traversed_edges_fc, calls, rows, segment_geom,
                   route_segments, open_cursors, queried, lookups, raised, out_fc,
                   item_idx>>

\* end of the first with block
LinkExit ==
    /\ pc = "link_exit"
    /\ open_cursors' = WithExit(open_cursors, "lve")
    /\ pc' = IF pending # NoException THEN "unwind" ELSE "shape_open"
    /\ UNCHANGED <<transit_fd, traversed_edges_fc, calls, rows, segment_geom, lveshape_id,
                   route_segments, queried, lookups, pending, raised, out_fc, item_idx>>

\* with arcpy.da.SearchCursor(lveshapes_lyr_name, ["SHAPE@"], f"LVEShapeID = {lveshape_id}") as cur
ShapeOpen ==
    /\ pc = "shape_open"
    /\ open_cursors' = open_cursors \cup {"lveshapes"}
    /\ queried' = queried \cup {<<LVESHAPES, "LVEShapeID">>}
    /\ lookups' = lookups \cup {<<Len(rows), LVESHAPES>>}
    /\ pc' = "shape_next"
    /\ UNCHANGED <<transit_fd, traversed_edges_fc, calls, rows, segment_geom, lveshape_id,
                   route_segments, pending, raised, out_fc, item_idx>>

\* lveshape_geom = next(cur)[0]; if lveshape_geom: segment_geom = lveshape_geom
ShapeNext ==
    /\ pc = "shape_next"
    /\ IF ~QueryFieldExists(transit_fd, LVESHAPES, "LVEShapeID")
       THEN pending' = "RuntimeError" /\ segment_geom' = segment_geom
       ELSE IF ShapeMatches(lveshape_id) = {}
       THEN pending' = "StopIteration" /\ segment_geom' = segment_geom
       ELSE /\ pending' = pending
            /\ segment_geom' =
                 ReplaceGeom(segment_geom, (CHOOSE r \in ShapeMatches(lveshape_id) : TRUE).Shape)
    /\ pc' = "shape_exit"
    /\ UNCHANGED <<transit_fd, traversed_edges_fc, calls, rows, lveshape_id,
                   route_segments, open_cursors, queried, lookups, raised, out_fc,
                   item_idx>>

\* end of the second with block
ShapeExit ==
    /\ pc = "shape_exit"
    /\ open_cursors' = WithExit(open_cursors, "lveshapes")
    /\ pc' = IF pending # NoException THEN "unwind" ELSE "store"
    /\ UNCHANGED <<transit_fd, traversed_edges_fc, calls, rows, segment_geom, lveshape_id,
                   route_segments, queried, lookups, pending, raised, out_fc, item_idx>>

\* for part in segment_geom.getPart(): route_segments.setdefault(row[0], arcpy.Array()).extend(part)
StoreSegment ==
    /\ pc = "store"
    /\ route_segments' = StoreParts(route_segments, CurrentRow.RouteID, getPart(segment_geom))
    /\ pc' = "fetch"
    /\ UNCHANGED <<transit_fd, traversed_edges_fc, calls, rows, segment_geom, lveshape_id,
                   open_cursors, queried, lookups, pending, raised, out_fc, item_idx>>

\* The exception leaves the method: the frame's evaluation stack is cleared, which drops
\* the loop's cursor object, and the caller receives the exception.
Unwind ==
    /\ pc = "unwind"
    /\ open_cursors' = open_cursors \ {"te"}
    /\ raised' = Propagate(pending)
    /\ pc' = "failed"
    /\ UNCHANGED <<transit_fd, traversed_edges_fc, calls, rows, segment_geom, lveshape_id,
                   route_segments, queried, lookups, pending, out_fc, item_idx>>

\* arcpy.management.CreateFeatureclass(...); AddField(self.out_fc, "RouteID", "LONG")
CreateFeatureclass ==
    /\ pc = "create_out"
    /\ calls' = calls \o <<"CreateFeatureclass(out_fc)", "AddField(out_fc)">>
    /\ out_fc' = [out_fc EXCEPT !.created = TRUE]
    /\ pc' = "insert_open"
    /\ UNCHANGED <<transit_fd, traversed_edges_fc, rows, segment_geom, lveshape_id,
                   route_segments, open_cursors, queried, lookups, pending, raised,
                   item_idx>>

\* with arcpy.da.InsertCursor(self.out_fc, ["SHAPE@", "RouteID"]) as cur
InsertOpen ==
    /\ pc = "insert_open"
    /\ open_cursors' = open_cursors \cup {"insert"}
    /\ pc' = "insert"
    /\ UNCHANGED <<transit_fd, traversed_edges_fc, calls, rows, segment_geom, lveshape_id,
                   route_segments, queried, lookups, pending, raised, out_fc, item_idx>>

\* for route_id, vertex_array in route_segments.items(): cur.insertRow([Polyline, route_id])
InsertRow ==
    /\ pc = "insert"
    /\ item_idx < Len(route_segments)
    /\ out_fc' = [out_fc EXCEPT !.rows =
                    Append(@, [RouteID |-> route_segments[item_idx + 1].key,
                               Shape |-> route_segments[item_idx + 1].value])]
    /\ item_idx' = item_idx + 1
    /\ UNCHANGED <<transit_fd, traversed_edges_fc, pc, calls, rows, segment_geom,
                   lveshape_id, route_segments, open_cursors, queried, lookups, pending,
                   raised>>

\* end of the insert cursor's with block; the method returns
InsertExit ==
    /\ pc = "insert"
    /\ item_idx = Len(route_segments)
    /\ open_cursors' = WithExit(open_cursors, "insert")
    /\ pc' = "done"
    /\ UNCHANGED <<transit_fd, traversed_edges_fc, calls, rows, segment_geom, lveshape_id,
                   route_segments, queried, lookups, pending, raised, out_fc, item_idx>>

-----------------------------------------------------------------------------
Next ==
    \/ CheckTransitFd
    \/ ValidateTablesExist
    \/ ValidateRequiredFields
    \/ ValidateTraversedEdgesExist
    \/ ValidateTraversedEdgesFields
    \/ MakeFeatureLayers
    \/ OpenTraversedEdgesCursor
    \/ FetchRow
    \/ EndOfRows
    \/ ReadFails
    \/ LinkOpen
    \/ LinkNext
    \/ LinkExit
    \/ ShapeOpen
    \/ ShapeNext
    \/ ShapeExit
    \/ StoreSegment
    \/ Unwind
    \/ CreateFeatureclass
    \/ InsertOpen
    \/ InsertRow
    \/ InsertExit

Spec == Init /\ [][Next]_vars

TypeOK ==
    /\ pc \in {"init", "validate_tables", "validate_fields", "validate_te_exists",
               "validate_te_fields", "init_failed", "constructed", "open_te", "fetch",
               "link_open", "link_next", "link_exit", "shape_open", "shape_next",
               "shape_exit", "store", "unwind", "failed", "create_out", "insert_open",
               "insert", "done"}
    /\ Len(rows) <= MaxEdges
    /\ open_cursors \subseteq {"te", "lve", "lveshapes", "insert"}

-----------------------------------------------------------------------------
(* Vocabulary of the properties, stated over the inputs *)

RECURSIVE FirstEncounterOrder(_, _)
\* The distinct RouteID values of a row sequence, in order of first encounter.
FirstEncounterOrder(rs, seen) ==
    IF rs = << >> THEN << >>
    ELSE IF Head(rs).RouteID \in seen THEN FirstEncounterOrder(Tail(rs), seen)
    ELSE <<Head(rs).RouteID>> \o FirstEncounterOrder(Tail(rs), seen \cup {Head(rs).RouteID})

OutputRouteIDs == [i \in 1..Len(out_fc.rows) |-> out_fc.rows[i].RouteID]

RECURSIVE VerticesOfParts(_)
VerticesOfParts(parts) ==
    IF parts = << >> THEN << >> ELSE Head(parts) \o VerticesOfParts(Tail(parts))

\* The vertices of a geometry, flattened across its parts in part order.
VerticesOf(geom) == VerticesOfParts(geom.parts)

\* Geometries of the LVEShapes rows linked to a traversed edge row through its SourceOID.
LinkedShapeGeoms(r) ==
    { s.Shape : s \in { x \in LVEShapesRows :
                          \E l \in LineVariantElementsRows :
                              l.OID = r.SourceOID /\ l.LVEShapeID = x.LVEShapeID } }

FromLVE(r) == r.SourceName = "LineVariantElements"

HasValidLinkedShape(r) == FromLVE(r) /\ \E g \in LinkedShapeGeoms(r) : ~g.is_none

\* No link row, no shape row, or a shape row with a null geometry.
NoReplacementAvailable(r) == FromLVE(r) /\ ~HasValidLinkedShape(r)

\* The resolved geometry of a row: the linked shape when there is a valid one, else its own.
ResolvedGeometry(r) ==
    IF HasValidLinkedShape(r)
    THEN CHOOSE g \in LinkedShapeGeoms(r) : ~g.is_none
    ELSE r.Shape

RECURSIVE ExpectedVertices(_, _)
\* Concatenation, in row order, of the resolved vertices of the rows of one route.
ExpectedVertices(rs, route) ==
    IF rs = << >> THEN << >>
    ELSE (IF Head(rs).RouteID = route THEN VerticesOf(ResolvedGeometry(Head(rs))) ELSE << >>)
         \o ExpectedVertices(Tail(rs), route)

Accumulated(rs, k) ==
    IF \E i \in 1..Len(rs) : rs[i].key = k
    THEN rs[CHOOSE i \in 1..Len(rs) : rs[i].key = k].value
    ELSE << >>

InConstructor == pc \in {"init", "validate_tables", "validate_fields", "validate_te_exists",
                         "validate_te_fields", "init_failed"}

Terminal == pc \in {"init_failed", "failed", "done"}

TouchesTraversedEdges(c) ==
    c \in {"Exists(traversed_edges_fc)", "Describe(traversed_edges_fc)",
           "SearchCursor(traversed_edges_fc)"}

-----------------------------------------------------------------------------
(* C1: when replace_route_shapes_with_lveshapes completes, the RouteID values of the
   inserted records are the distinct RouteID values of the input in order of first
   encounter, one record per route, also for routes whose geometries have zero parts. *)
C1_OneRecordPerRoute ==
    pc = "done" => OutputRouteIDs = FirstEncounterOrder(rows, {})

(* C2: the vertex sequence accumulated and written for a route is the concatenation, in
   input order, of the vertices of the resolved geometry of each row of that route,
   flattened across parts; rows of other routes do not change it and every route with
   vertices gets them written. *)
C2_VertexOrder ==
    /\ pc = "fetch" =>
         \A i \in 1..Len(route_segments) :
             route_segments[i].value = ExpectedVertices(rows, route_segments[i].key)
    /\ pc = "done" =>
         /\ \A i \in 1..Len(out_fc.rows) :
                out_fc.rows[i].Shape = ExpectedVertices(rows, out_fc.rows[i].RouteID)
         /\ \A r \in RouteIDs :
                ExpectedVertices(rows, r) # << >> =>
                    \E i \in 1..Len(out_fc.rows) : out_fc.rows[i].RouteID = r

C2_Witness ==
    /\ pc = "done"
    /\ Len(rows) = 3
    /\ rows[1].RouteID = rows[3].RouteID
    /\ rows[2].RouteID # rows[1].RouteID
    /\ HasValidLinkedShape(rows[1])
    /\ ~FromLVE(rows[3]) /\ rows[3].Shape = GeomA
    /\ rows[2].Shape = GeomB
    /\ Len(out_fc.rows) = 2

(* C3: for a LineVariantElements row whose link lookup returns no row, whose shape lookup
   returns no row, or whose shape row has a null geometry, the geometry used is the row's
   own and no error is raised. *)
C3_SilentFallback ==
    ( /\ ~InConstructor
      /\ Len(rows) > 0
      /\ Lower("LVEShapeID") \in LowerAll(transit_fd.lveshapes_fields)
      /\ NoReplacementAvailable(CurrentRow) )
    => /\ pending = NoException
       /\ raised = NoException
       /\ pc = "store" => segment_geom = CurrentRow.Shape

(* C4: for a LineVariantElements row whose linked shape has a non-null geometry G, the
   vertices appended to the route's accumulator for that row are exactly the vertices
   of G, and none of the row's own vertices. *)
C4_Replacement ==
    [][ (pc = "store" /\ pc' = "fetch" /\ HasValidLinkedShape(CurrentRow)) =>
          \E g \in LinkedShapeGeoms(CurrentRow) :
              /\ ~g.is_none
              /\ Accumulated(route_segments', CurrentRow.RouteID) =
                     Accumulated(route_segments, CurrentRow.RouteID) \o VerticesOf(g) ]_vars

C4_Witness ==
    /\ pc = "fetch"
    /\ Len(rows) > 0
    /\ HasValidLinkedShape(CurrentRow)
    /\ CurrentRow.Shape = GeomA
    /\ Accumulated(route_segments, CurrentRow.RouteID) # << >>

(* C5: for a row whose SourceName is not LineVariantElements no lookup is issued against
   LineVariantElements or LVEShapes, and the row's own geometry is the one stored, even
   when a link row shares the row's SourceOID. *)
C5_NoLookupForOtherSources ==
    /\ \A l \in lookups : FromLVE(rows[l[1]])
    /\ (Len(rows) > 0 /\ ~FromLVE(CurrentRow)) =>
         /\ open_cursors \cap {"lve", "lveshapes"} = {}
         /\ pc = "store" => segment_geom = CurrentRow.Shape

C5_Witness ==
    /\ pc = "fetch"
    /\ Len(rows) > 1
    /\ ~FromLVE(CurrentRow)
    /\ \E l \in LineVariantElementsRows : l.OID = CurrentRow.SourceOID
    /\ CurrentRow.Shape = GeomB
    /\ lookups # {}
    /\ \A l \in lookups : l[1] # Len(rows)
    /\ Accumulated(route_segments, CurrentRow.RouteID) # << >>

\* The dataset lacks a required table or a required field, names compared in lower case.
DatasetInvalid ==
    \/ ~transit_fd.lve_exists
    \/ ~transit_fd.lveshapes_exists
    \/ "lveshapeid" \notin { Lower(f) : f \in transit_fd.lve_fields }
    \/ "id" \notin { Lower(f) : f \in transit_fd.lveshapes_fields }

(* C6: construction over a dataset that lacks LineVariantElements or LVEShapes, or a
   required field of either (compared without regard to case), fails with the schema
   error; existence is checked before fields, and the traversed edges source is not
   checked for existence, described or read. *)
C6_SchemaFailsFirst ==
    DatasetInvalid =>
        /\ pc \in {"init", "validate_tables", "validate_fields", "init_failed"}
        /\ pc = "init_failed" => raised = TNATError
        /\ \A i \in 1..Len(calls) : ~TouchesTraversedEdges(calls[i])
        /\ rows = << >> /\ "te" \notin open_cursors
        /\ \A i \in 1..Len(calls) :
               calls[i] \in {"ListFields(LineVariantElements)", "ListFields(LVEShapes)"} =>
                   /\ i > 2
                   /\ calls[1] = "Exists(LineVariantElements)"
                   /\ calls[2] = "Exists(LVEShapes)"
                   /\ transit_fd.lve_exists /\ transit_fd.lveshapes_exists

C6_Witness ==
    /\ pc = "init_failed"
    /\ transit_fd.is_str
    /\ transit_fd.lve_fields = {"OBJECTID", "lveshapeid"}
    /\ transit_fd.lveshapes_fields = {"OBJECTID", "LVEShapeID"}
    /\ raised = TNATError
    /\ calls[Len(calls)] = "ListFields(LVEShapes)"

C8_CursorsReleased ==
    Terminal => open_cursors = {}

C8_Witness ==
    /\ pc = "failed"
    /\ pending = "StopIteration"
    /\ Len(rows) >= 2
    /\ <<Len(rows), LVESHAPES>> \in lookups
    /\ route_segments # << >>
    /\ open_cursors = {}

\* The (relation, field) pairs the validators require, in lower case.
ValidatedPairs ==
    UNION { { <<required_tables[i], Lower(f)>> : f \in required_fields(required_tables[i]) }
            : i \in 1..Len(required_tables) }

(* C9: once construction succeeded, every field named in a query against a shape
   reference relation is a field the validator required of that relation, and a
   validated store never fails resolution on a missing field. *)
C9_QueriedFieldsValidated ==
    ~InConstructor =>
        /\ \A q \in queried : <<q[1], Lower(q[2])>> \in ValidatedPairs
        /\ \A q \in queried : Lower(q[2]) \in LowerAll(ListFields(transit_fd, q[1]))

(* C10: the output is created and records are inserted only after the last traversed
   edge row was consumed; when streaming or resolution fails, the output feature class
   was not created and no record was inserted. *)
C10_NoPartialOutput ==
    /\ (out_fc.created \/ out_fc.rows # << >> \/ "insert" \in open_cursors) =>
           /\ "te" \notin open_cursors
           /\ \E i \in 1..Len(calls) : calls[i] = "SearchCursor(traversed_edges_fc)"
           /\ pc \in {"insert_open", "insert", "done"}
    /\ (pending # NoException \/ pc = "failed") =>
           /\ ~out_fc.created
           /\ out_fc.rows = << >>

C10_Witness ==
    /\ pc = "failed"
    /\ Len(rows) >= 2
    /\ route_segments # << >>
    /\ ~out_fc.created

====
